---- MODULE Spec2Model ----
(***************************************************************************)
(* Block processing core of chain/chain/src/chain.rs: the orphan pools,    *)
(* the ChainUpdate transaction over a staged write batch, and the Chain    *)
(* facade with its three heads and the orphan cascade.                     *)
(*                                                                         *)
(* A block is identified by its content hash, so every attribute of a      *)
(* block (parent, height, timestamp, weight, whether its chunks and state  *)
(* root check out) is a function of the hash.  The blocks a run can meet   *)
(* are listed in a table (Universe); the variable scen names the table.    *)
(***************************************************************************)
EXTENDS Integers, Sequences, FiniteSets, TLC

VARIABLES
    scen,       \* which table of blocks this run draws its inputs from
    build,      \* "release" (wrapping u64 arithmetic) or "debug" (checked)
    store,      \* ChainStore: persisted headers, blocks and the three heads
    orphans,    \* Chain.orphans: OrphanBlockPool
    missing,    \* Chain.blocks_with_missing_chunks: OrphanBlockPool
    now,        \* wall clock, in ticks of TickSecs seconds since genesis_time
    accepted,   \* observer: number of on_accepted calls seen per block
    last        \* the last public call: operation, argument, result, callbacks

vars == <<scen, build, store, orphans, missing, now, accepted, last>>

(***************************************************************************)
(* Constants of the source and bounds of the model.                        *)
(***************************************************************************)
\* chain.rs:22 has 1024; the pool logic only compares lengths with it, and
\* the model scales it so that a full pool is a handful of blocks.
MAX_ORPHAN_SIZE == 3
MAX_ORPHAN_AGE_SECS == 300
ACCEPTABLE_TIME_DIFFERENCE == 120
OLD_BLOCK_DEPTH == 50

TickSecs == 300
MaxTicks == 1
MaxSyncLen == 2
MaxEvicted == 3
NumShards == 2
MaxHorizon == 2

NoHash == -1                    \* CryptoHash::default()
None == [none |-> TRUE]         \* Option::None
GenesisHash == 0

(***************************************************************************)
(* The blocks.  defect names the first content check the block fails       *)
(* ("none" for a well-formed block); weight_ok says whether the runtime's  *)
(* compute_block_weight agrees with header.total_weight; wait says that    *)
(* the block's chunk bodies have to be fetched before it can be applied.   *)
(***************************************************************************)
B(p, h, ts, w, wok, d, wt) ==
    [prev_hash |-> p, height |-> h, timestamp |-> ts, total_weight |-> w,
     weight_ok |-> wok, defect |-> d, wait |-> wt]

Genesis == B(NoHash, 0, 0, 0, TRUE, "none", FALSE)

\* S2, S3, S6 of the specification: a chain of two and a heavier fork
MainBlocks ==
    0 :> Genesis @@
    1 :> B(0, 1, 10, 1, TRUE, "none", FALSE) @@          \* B1
    2 :> B(1, 2, 20, 2, TRUE, "none", FALSE) @@          \* B2
    3 :> B(1, 2, 25, 3, TRUE, "none", FALSE)             \* B2'', heavier fork

\* S5: a fork that is not heavier (here: of equal weight)
ForkBlocks ==
    0 :> Genesis @@
    1 :> B(0, 1, 10, 1, TRUE, "none", FALSE) @@
    2 :> B(1, 2, 20, 2, TRUE, "none", FALSE) @@
    3 :> B(1, 2, 25, 2, TRUE, "none", FALSE)

\* a chain of three, the last with chunk bodies that have to be fetched
LongBlocks ==
    0 :> Genesis @@
    1 :> B(0, 1, 10, 1, TRUE, "none", FALSE) @@
    2 :> B(1, 2, 20, 2, TRUE, "none", FALSE) @@
    3 :> B(2, 3, 30, 3, TRUE, "none", TRUE)

\* a chain of two and two blocks whose parent (hash 9) never arrives: three
\* orphans at three successive heights wait in the pool
PoolBlocks ==
    0 :> Genesis @@
    1 :> B(0, 1, 10, 1, TRUE, "none", FALSE) @@
    2 :> B(1, 2, 20, 2, TRUE, "none", FALSE) @@
    3 :> B(9, 3, 30, 3, TRUE, "none", FALSE) @@
    4 :> B(9, 4, 40, 4, TRUE, "none", FALSE)

\* blocks on genesis that fail a check: after the header is staged (state
\* root), after the block is staged (chunk header, runtime), on the clock
\* and on the weight
BadBlocks ==
    0 :> Genesis @@
    1 :> B(0, 1, 10, 5, TRUE, "StateRoot", FALSE) @@
    2 :> B(0, 1, 10, 5, TRUE, "Runtime", FALSE) @@
    3 :> B(0, 1, 10, 5, TRUE, "Chunk", FALSE) @@
    4 :> B(0, 1, 0, 5, TRUE, "none", FALSE) @@           \* not later than genesis
    5 :> B(0, 1, 400, 4, FALSE, "none", FALSE) @@        \* early, odd weight
    6 :> B(1, 2, 5, 6, TRUE, "none", FALSE)              \* on 1, not later than 1

\* heights around the old-block threshold, all on genesis
DeepBlocks ==
    0 :> Genesis @@
    1 :> B(0, 51, 10, 1, TRUE, "none", FALSE) @@
    2 :> B(0, 60, 10, 2, TRUE, "none", FALSE) @@
    3 :> B(0, 102, 10, 5, TRUE, "none", FALSE) @@
    4 :> B(0, 1, 10, 9, TRUE, "none", FALSE)

\* orphans only (their parent, hash 9, never arrives): two at one height and
\* two more at two higher heights
HeightBlocks ==
    0 :> Genesis @@
    1 :> B(9, 1, 10, 1, TRUE, "none", FALSE) @@
    2 :> B(9, 1, 12, 1, TRUE, "none", FALSE) @@
    3 :> B(9, 2, 20, 2, TRUE, "none", FALSE) @@
    4 :> B(9, 3, 30, 3, TRUE, "none", FALSE)

\* a block and its child two heights above it: no check ties a block's
\* height to its predecessor's
GapBlocks ==
    0 :> Genesis @@
    1 :> B(0, 1, 10, 1, TRUE, "none", FALSE) @@
    2 :> B(1, 3, 20, 2, TRUE, "none", FALSE)

Universe == [main |-> MainBlocks, fork |-> ForkBlocks, long |-> LongBlocks,
             pool |-> PoolBlocks, bad |-> BadBlocks, deep |-> DeepBlocks,
             heights |-> HeightBlocks, gap |-> GapBlocks]

\* The build decides what the u64 subtraction of check_known_store does when
\* it overflows; only the heights of the deep table can make it overflow.
Configurations ==
    {<<"main", "release">>, <<"fork", "release">>, <<"long", "release">>,
     <<"pool", "release">>, <<"bad", "release">>, <<"deep", "release">>, <<"deep", "debug">>,
     <<"gap", "release">>}

Blk(b) == Universe[scen][b]
Ids == DOMAIN Universe[scen]
Heights == {Blk(b).height : b \in Ids}
WaitIds == {b \in Ids : Blk(b).wait}

Provenances == {"NONE", "PRODUCED"}     \* SYNC is what sync_block_headers uses

Ok == [kind |-> "Ok", msg |-> ""]
Err(k) == [kind |-> k, msg |-> ""]
Unfit(m) == [kind |-> "Unfit", msg |-> m]

Max(S) == CHOOSE x \in S : \A y \in S : y <= x
Min(S) == CHOOSE x \in S : \A y \in S : x <= y

Range(s) == {s[i] : i \in 1..Len(s)}

(***************************************************************************)
(* OrphanBlockPool                                                         *)
(*   orphans    : hash -> Orphan (the block is its hash; provenance, added)*)
(*   height_idx : height -> list of hashes, in insertion order             *)
(*   evicted    : count of evicted entries                                 *)
(***************************************************************************)
EmptyFn == [x \in {} |-> 0]

OrphanBlockPool_new == [orphans |-> EmptyFn, height_idx |-> EmptyFn, evicted |-> 0]

Pool_len(pool) == Cardinality(DOMAIN pool.orphans)

Pool_contains(pool, hash) == hash \in DOMAIN pool.orphans

\* x.added.elapsed() < MAX_ORPHAN_AGE_SECS, read at time t
Fresh(o, t) == (t - o.added) * TickSecs < MAX_ORPHAN_AGE_SECS

Restrict(f, S) == [x \in S |-> f[x]]

\* The loop of add over the heights from the highest down: drop the bucket,
\* remove its hashes from the map, stop once the map is below the cap.
\* st = [orphans, height_idx, removed]; hs = the heights not yet visited.
\* the buckets dropped from the lowest height upward
RECURSIVE DropBuckets_lowest(_, _)
DropBuckets_lowest(st, hs) ==
    IF hs = {} THEN st
    ELSE LET h == CHOOSE x \in hs : \A y \in hs : x <= y
             bucket == Range(st.height_idx[h])
             o2 == Restrict(st.orphans, DOMAIN st.orphans \ bucket)
             st2 == [orphans |-> o2,
                     height_idx |-> Restrict(st.height_idx, DOMAIN st.height_idx \ {h}),
                     removed |-> st.removed \cup bucket]
         IN  IF Cardinality(DOMAIN o2) < MAX_ORPHAN_SIZE THEN st2
             ELSE DropBuckets_lowest(st2, hs \ {h})

RECURSIVE DropBuckets(_, _)
DropBuckets(st, hs) ==
    IF hs = {} THEN st
    ELSE LET h == Max(hs)
             bucket == Range(st.height_idx[h])
             o2 == Restrict(st.orphans, DOMAIN st.orphans \ bucket)
             st2 == [orphans |-> o2,
                     height_idx |-> Restrict(st.height_idx, DOMAIN st.height_idx \ {h}),
                     removed |-> st.removed \cup bucket]
         IN  IF Cardinality(DOMAIN o2) < MAX_ORPHAN_SIZE THEN st2
             ELSE DropBuckets(st2, hs \ {h})

\* eviction by age only, no bucket dropped
Pool_evict_by_age(pool, t) ==
    LET kept == {x \in DOMAIN pool.orphans : Fresh(pool.orphans[x], t)}
    IN  [orphans |-> Restrict(pool.orphans, kept),
         height_idx |-> pool.height_idx,
         evicted |-> pool.evicted + (Pool_len(pool) - Cardinality(kept))]

\* The eviction branch of add (chain.rs:60-83), entered when the map is over
\* the cap: expire by age in the map only, drop buckets, prune the index.
Pool_evict(pool, t) ==
    LET old_len == Pool_len(pool)
        kept == {x \in DOMAIN pool.orphans : Fresh(pool.orphans[x], t)}
        st0 == [orphans |-> Restrict(pool.orphans, kept),
                height_idx |-> pool.height_idx, removed |-> {}]
        st1 == DropBuckets(st0, DOMAIN pool.height_idx)
        keepH == {h \in DOMAIN st1.height_idx :
                    \E i \in 1..Len(st1.height_idx[h]) :
                        st1.height_idx[h][i] \notin st1.removed}
    IN  [orphans |-> st1.orphans,
         height_idx |-> Restrict(st1.height_idx, keepH),
         evicted |-> pool.evicted + (old_len - Cardinality(DOMAIN st1.orphans))]

\* the orphan is not inserted
Pool_add_dropped(pool, b, prov, t) == pool

\* the hash put at the front of its bucket
Pool_add_front(pool, b, prov, t) ==
    LET h == Blk(b).height
        hi == IF h \in DOMAIN pool.height_idx
              THEN [pool.height_idx EXCEPT ![h] = <<b>> \o @]
              ELSE (h :> <<b>>) @@ pool.height_idx
        os == (b :> [provenance |-> prov, added |-> t]) @@ pool.orphans
        p1 == [orphans |-> os, height_idx |-> hi, evicted |-> pool.evicted]
    IN  IF Pool_len(p1) > MAX_ORPHAN_SIZE THEN Pool_evict(p1, t) ELSE p1

Pool_add(pool, b, prov, t) ==
    LET h == Blk(b).height
        hi == IF h \in DOMAIN pool.height_idx
              THEN [pool.height_idx EXCEPT ![h] = Append(@, b)]
              ELSE (h :> <<b>>) @@ pool.height_idx
        os == (b :> [provenance |-> prov, added |-> t]) @@ pool.orphans
        p1 == [orphans |-> os, height_idx |-> hi, evicted |-> pool.evicted]
    IN  IF Pool_len(p1) > MAX_ORPHAN_SIZE THEN Pool_evict(p1, t) ELSE p1

\* filter_map over the bucket with orphans.remove: a hash is returned the
\* first time it is met and only if the map still holds it.
RECURSIVE TakeOrphans(_, _, _)
TakeOrphans(os, hs, out) ==
    IF hs = <<>> THEN [orphans |-> os, out |-> out]
    ELSE LET x == Head(hs)
         IN  IF x \in DOMAIN os
             THEN TakeOrphans(Restrict(os, DOMAIN os \ {x}), Tail(hs),
                              Append(out, [block |-> x,
                                           provenance |-> os[x].provenance,
                                           added |-> os[x].added]))
             ELSE TakeOrphans(os, Tail(hs), out)

\* Returns [some, list, pool]: Option<Vec<Orphan>> and the pool afterwards.
Pool_remove_by_height(pool, height) ==
    IF height \notin DOMAIN pool.height_idx
    THEN [some |-> FALSE, list |-> <<>>, pool |-> pool]
    ELSE LET r == TakeOrphans(pool.orphans, pool.height_idx[height], <<>>)
         IN  [some |-> TRUE, list |-> r.out,
              pool |-> [orphans |-> r.orphans,
                        height_idx |-> Restrict(pool.height_idx,
                                                DOMAIN pool.height_idx \ {height}),
                        evicted |-> pool.evicted]]

(***************************************************************************)
(* ChainStore and ChainStoreUpdate (crate::store): a store is the set of   *)
(* persisted headers, the set of persisted blocks and the three heads; an  *)
(* update buffers writes over a base store, reads look at the buffer first *)
(* and commit writes the buffer as one unit.                               *)
(***************************************************************************)
Tip_from_header(b) ==
    [last_block_hash |-> b, prev_block_hash |-> Blk(b).prev_hash,
     height |-> Blk(b).height, total_weight |-> Blk(b).total_weight]

store_update(s) ==
    [base |-> s, headers |-> {}, blocks |-> {},
     head |-> None, header_head |-> None, sync_head |-> None]

csu_head(cu) == IF cu.head = None THEN cu.base.head ELSE cu.head
csu_header_head(cu) ==
    IF cu.header_head = None THEN cu.base.header_head ELSE cu.header_head
csu_sync_head(cu) ==
    IF cu.sync_head = None THEN cu.base.sync_head ELSE cu.sync_head
csu_header_exists(cu, h) == h \in cu.headers \/ h \in cu.base.headers
csu_block_exists(cu, h) == h \in cu.blocks \/ h \in cu.base.blocks

save_block_header(cu, h) == [cu EXCEPT !.headers = @ \cup {h}]
save_block(cu, b) == [cu EXCEPT !.blocks = @ \cup {b}]
save_body_head(cu, t) == [cu EXCEPT !.head = t]
save_header_head(cu, t) == [cu EXCEPT !.header_head = t]
save_sync_head(cu, t) == [cu EXCEPT !.sync_head = t]
save_head(cu, t) == save_header_head(save_body_head(cu, t), t)

commit(cu) ==
    [headers |-> cu.base.headers \cup cu.headers,
     blocks |-> cu.base.blocks \cup cu.blocks,
     head |-> csu_head(cu),
     header_head |-> csu_header_head(cu),
     sync_head |-> csu_sync_head(cu)]

EmptyStore ==
    [headers |-> {}, blocks |-> {}, head |-> None,
     header_head |-> None, sync_head |-> None]

(***************************************************************************)
(* ChainUpdate: one block's transaction over a ChainStoreUpdate.  Every    *)
(* operation returns the result together with the batch as staged so far.  *)
(***************************************************************************)
Now(t) == t * TickSecs

\* chain.rs:782  a parent header that is not found is an Orphan
ChainUpdate_get_previous_header(cu, b) ==
    IF csu_header_exists(cu, Blk(b).prev_hash) THEN Ok ELSE Err("Orphan")

\* an equal timestamp let through
validate_header_or_equal(cu, b, prov, t) ==
    IF Blk(b).timestamp > Now(t) + ACCEPTABLE_TIME_DIFFERENCE
    THEN Err("InvalidBlockFutureTime")
    ELSE IF ChainUpdate_get_previous_header(cu, b) # Ok THEN Err("Orphan")
    ELSE IF Blk(b).timestamp < Blk(Blk(b).prev_hash).timestamp
    THEN Err("InvalidBlockPastTime")
    ELSE IF prov # "PRODUCED" /\ ~Blk(b).weight_ok THEN Err("InvalidBlockWeight")
    ELSE Ok

validate_header(cu, b, prov, t) ==
    IF Blk(b).timestamp > Now(t) + ACCEPTABLE_TIME_DIFFERENCE
    THEN Err("InvalidBlockFutureTime")
    ELSE IF ChainUpdate_get_previous_header(cu, b) # Ok THEN Err("Orphan")
    ELSE IF Blk(b).timestamp <= Blk(Blk(b).prev_hash).timestamp
    THEN Err("InvalidBlockPastTime")
    ELSE IF prov # "PRODUCED" /\ ~Blk(b).weight_ok THEN Err("InvalidBlockWeight")
    ELSE Ok

\* the comparison turned around
update_header_head_reversed(cu, b) ==
    IF Blk(b).total_weight < csu_header_head(cu).total_weight
    THEN save_header_head(cu, Tip_from_header(b))
    ELSE cu

\* >= in place of >
update_header_head_or_equal(cu, b) ==
    IF Blk(b).total_weight >= csu_header_head(cu).total_weight
    THEN save_header_head(cu, Tip_from_header(b))
    ELSE cu

update_header_head(cu, b) ==
    IF Blk(b).total_weight > csu_header_head(cu).total_weight
    THEN save_header_head(cu, Tip_from_header(b))
    ELSE cu

\* the longest chain in place of the heaviest
update_head_by_height(cu, b) ==
    IF Blk(b).height > csu_head(cu).height
    THEN [tip |-> Tip_from_header(b), cu |-> save_body_head(cu, Tip_from_header(b))]
    ELSE [tip |-> None, cu |-> cu]

\* >= in place of >
update_head_or_equal(cu, b) ==
    IF Blk(b).total_weight >= csu_head(cu).total_weight
    THEN [tip |-> Tip_from_header(b), cu |-> save_body_head(cu, Tip_from_header(b))]
    ELSE [tip |-> None, cu |-> cu]

\* < in place of >
update_head_lighter(cu, b) ==
    IF Blk(b).total_weight < csu_head(cu).total_weight
    THEN [tip |-> Tip_from_header(b), cu |-> save_body_head(cu, Tip_from_header(b))]
    ELSE [tip |-> None, cu |-> cu]

\* Returns [tip, cu]
update_head(cu, b) ==
    IF Blk(b).total_weight > csu_head(cu).total_weight
    THEN [tip |-> Tip_from_header(b), cu |-> save_body_head(cu, Tip_from_header(b))]
    ELSE [tip |-> None, cu |-> cu]

\* the sync head moved only by a heavier header
update_sync_head_if_heavier(cu, b) ==
    IF Blk(b).total_weight > csu_sync_head(cu).total_weight
    THEN save_sync_head(cu, Tip_from_header(b))
    ELSE cu

update_sync_head(cu, b) == save_sync_head(cu, Tip_from_header(b))

\* the header validated but not saved
process_header_for_block_unsaved(cu, b, prov, t) ==
    LET then(v) ==
            IF v # Ok THEN [res |-> v, cu |-> cu]
            ELSE [res |-> Ok, cu |-> update_header_head(cu, b)]
    IN  then(validate_header(cu, b, prov, t))

\* Returns [res, cu]
process_header_for_block(cu, b, prov, t) ==
    LET then(v) ==
            IF v # Ok THEN [res |-> v, cu |-> cu]
            ELSE [res |-> Ok, cu |-> update_header_head(save_block_header(cu, b), b)]
    IN  then(validate_header(cu, b, prov, t))

check_header_known(cu, b) ==
    IF b = csu_header_head(cu).last_block_hash \/ b = csu_header_head(cu).prev_block_hash
    THEN Unfit("header already known")
    ELSE Ok

check_known_head(cu, b) ==
    IF b = csu_head(cu).last_block_hash \/ b = csu_head(cu).prev_block_hash
    THEN Unfit("already known in head")
    ELSE Ok

check_known_orphans(os, ms, b) ==
    IF Pool_contains(os, b) THEN Unfit("already known in orphans")
    ELSE IF Pool_contains(ms, b)
    THEN Unfit("already known in blocks with missing chunks")
    ELSE Ok

\* header.height > 50 && header.height < head.height - 50 on u64 heights.
\* With head.height < 50 the subtraction overflows: a build with overflow
\* checks panics, one without wraps to 2^64 - (50 - head.height), which is
\* above every height of the tables.  && does not evaluate its right side
\* when the left side is false.
check_known_store(cu, b, bld) ==
    IF ~csu_block_exists(cu, b) THEN Ok
    ELSE IF Blk(b).height <= OLD_BLOCK_DEPTH THEN Unfit("already known in store")
    ELSE IF csu_head(cu).height >= OLD_BLOCK_DEPTH
    THEN IF Blk(b).height < csu_head(cu).height - OLD_BLOCK_DEPTH
         THEN Err("OldBlock")
         ELSE Unfit("already known in store")
    ELSE IF bld = "debug" THEN Err("Panic") ELSE Err("OldBlock")

\* the store is not consulted
check_known_no_store(cu, os, ms, b, bld) ==
    LET then(h, o) == IF h # Ok THEN h ELSE o
    IN  then(check_known_head(cu, b), check_known_orphans(os, ms, b))

\* the pools are not consulted
check_known_no_orphans(cu, os, ms, b, bld) ==
    LET then(h, s) == IF h # Ok THEN h ELSE s
    IN  then(check_known_head(cu, b), check_known_store(cu, b, bld))

check_known(cu, os, ms, b, bld) ==
    LET then(h, o, s) == IF h # Ok THEN h ELSE IF o # Ok THEN o ELSE s
    IN  then(check_known_head(cu, b), check_known_orphans(os, ms, b),
             check_known_store(cu, b, bld))

ChainUpdate_process_block_header(cu, b, t) ==
    LET then(k, v) == IF k # Ok THEN k ELSE v
    IN  then(check_header_known(cu, b), validate_header(cu, b, "NONE", t))

\* The part of process_block after the block is staged (chain.rs:869-971):
\* parent block, receipts of the delivered chunks, per-shard application,
\* head update.  have = the blocks whose chunk bodies the store holds.
apply_block(cu, b, have) ==
    IF ~csu_block_exists(cu, Blk(b).prev_hash) THEN [res |-> Err("DBNotFoundErr"), tip |-> None, cu |-> cu]
    ELSE IF Blk(b).wait /\ b \notin have THEN [res |-> Err("ChunksMissing"), tip |-> None, cu |-> cu]
    ELSE IF Blk(b).defect = "Chunk" THEN [res |-> Err("InvalidChunk"), tip |-> None, cu |-> cu]
    ELSE IF Blk(b).defect = "Runtime" THEN [res |-> Err("Other"), tip |-> None, cu |-> cu]
    ELSE LET then(u) == [res |-> Ok, tip |-> u.tip, cu |-> u.cu]
         IN  then(update_head(cu, b))

\* the header validated before the parent block is looked up
ChainUpdate_process_block_header_first(cu, os, ms, b, prov, t, have, bld) ==
    LET then(known, head, prev, hdr) ==
            IF known # Ok THEN [res |-> known, tip |-> None, cu |-> cu]
            ELSE IF prev # Ok THEN [res |-> prev, tip |-> None, cu |-> cu]
            ELSE IF hdr.res # Ok THEN [res |-> hdr.res, tip |-> None, cu |-> hdr.cu]
            ELSE IF /\ Blk(b).prev_hash # head.last_block_hash
                    /\ ~csu_block_exists(cu, Blk(b).prev_hash)
            THEN [res |-> Err("Orphan"), tip |-> None, cu |-> cu]
            ELSE IF Blk(b).defect = "StateRoot"
            THEN [res |-> Err("InvalidStateRoot"), tip |-> None, cu |-> hdr.cu]
            ELSE apply_block(save_block(hdr.cu, b), b, have)
    IN  then(check_known(cu, os, ms, b, bld), csu_head(cu),
             ChainUpdate_get_previous_header(cu, b),
             process_header_for_block(cu, b, prov, t))

\* Returns [res, tip, cu]: Result<Option<Tip>, Error> and the batch.
ChainUpdate_process_block(cu, os, ms, b, prov, t, have, bld) ==
    LET then(known, head, prev, hdr) ==
            IF known # Ok THEN [res |-> known, tip |-> None, cu |-> cu]
            ELSE IF prev # Ok THEN [res |-> prev, tip |-> None, cu |-> cu]
            ELSE IF /\ Blk(b).prev_hash # head.last_block_hash
                    /\ ~csu_block_exists(cu, Blk(b).prev_hash)
            THEN [res |-> Err("Orphan"), tip |-> None, cu |-> cu]
            ELSE IF hdr.res # Ok THEN [res |-> hdr.res, tip |-> None, cu |-> hdr.cu]
            ELSE IF Blk(b).defect = "StateRoot"
            THEN [res |-> Err("InvalidStateRoot"), tip |-> None, cu |-> hdr.cu]
            ELSE apply_block(save_block(hdr.cu, b), b, have)
    IN  then(check_known(cu, os, ms, b, bld), csu_head(cu),
             ChainUpdate_get_previous_header(cu, b),
             process_header_for_block(cu, b, prov, t))

(***************************************************************************)
(* Chain: the facade.  c = [store, orphans, missing, log] is the Chain and *)
(* the callbacks made so far in the current public call.                   *)
(***************************************************************************)
\* get_block_hash_by_height: the hash the main chain has at this height, that
\* is the ancestor of the block head at that height; NoHash when the index
\* has no entry (DBNotFoundErr)
RECURSIVE ancestor_at_height(_, _, _, _)
ancestor_at_height(s, x, height, fuel) ==
    IF x \notin Ids \/ x \notin s.headers \/ fuel = 0 THEN NoHash
    ELSE IF Blk(x).height = height THEN x
    ELSE ancestor_at_height(s, Blk(x).prev_hash, height, fuel - 1)

get_block_hash_by_height(s, height) ==
    IF s.head = None THEN NoHash
    ELSE ancestor_at_height(s, s.head.last_block_hash, height, Cardinality(Ids))

\* runtime_adapter.genesis_state(): one state root per shard; Block::genesis
\* builds one chunk header per shard (chunk hashes 201.., roots 101..)
StateRoots == [i \in 1..NumShards |-> 100 + i]
GenesisChunks == [i \in 1..NumShards |-> 200 + i]

\* chain.rs:169-172  for (chunk_header, state_root) in chunks.zip(state_roots):
\* save_post_state_root(chunk_hash, state_root); zip stops at the shorter one
RECURSIVE PostStateRoots(_, _)
PostStateRoots(chunks, roots) ==
    IF chunks = <<>> \/ roots = <<>> THEN EmptyFn
    ELSE LET rest == PostStateRoots(Tail(chunks), Tail(roots))
         IN  [c \in DOMAIN rest \cup {Head(chunks)} |->
                 IF c \in DOMAIN rest THEN rest[c] ELSE Head(roots)]

\* the sync head left as the store has it when the header head is intact
Chain_reopen_keep_sync_head(s, genesis) ==
    LET cu0 == store_update(s)
        head == csu_head(cu0)
        genesis_hash == get_block_hash_by_height(s, 0)
        header_head == csu_header_head(cu0)
    IN  IF genesis_hash = NoHash
        THEN [res |-> Err("DBNotFound"), store |-> s]
        ELSE IF genesis_hash # genesis
        THEN [res |-> Err("Other"), store |-> s]
        ELSE IF ~csu_header_exists(cu0, header_head.last_block_hash)
        THEN [res |-> Ok,
              store |-> commit(save_sync_head(save_header_head(cu0, head), head))]
        ELSE [res |-> Ok, store |-> commit(cu0)]

\* chain.rs:128-154, 184  the store has a head: the genesis at height 0 must
\* be the configured one; a header head whose header is missing is reset to
\* the block head, and the sync head is set to the header head
Chain_reopen(s, genesis) ==
    LET cu0 == store_update(s)
        head == csu_head(cu0)
        genesis_hash == get_block_hash_by_height(s, 0)
        header_head == csu_header_head(cu0)
    IN  IF genesis_hash = NoHash
        THEN [res |-> Err("DBNotFound"), store |-> s]
        ELSE IF genesis_hash # genesis
        THEN [res |-> Err("Other"), store |-> s]
        ELSE IF ~csu_header_exists(cu0, header_head.last_block_hash)
        THEN [res |-> Ok,
              store |-> commit(save_sync_head(save_header_head(cu0, head), head))]
        ELSE [res |-> Ok, store |-> commit(save_sync_head(cu0, header_head))]

\* the sync head of the fresh chain left unset
Chain_new_no_sync_head ==
    LET cu0 == store_update(EmptyStore)
        cu1 == save_block(save_block_header(cu0, GenesisHash), GenesisHash)
        cu2 == save_head(cu1, Tip_from_header(GenesisHash))
    IN  [store |-> commit(cu2),
         orphans |-> OrphanBlockPool_new,
         missing |-> OrphanBlockPool_new,
         post_state_root |-> PostStateRoots(GenesisChunks, StateRoots)]

\* chain.rs:155-196  the store has no head: genesis is written.  The
\* post-state roots are kept beside the store: nothing else reads them.
Chain_new ==
    LET cu0 == store_update(EmptyStore)
        cu1 == save_block(save_block_header(cu0, GenesisHash), GenesisHash)
        cu2 == save_sync_head(save_head(cu1, Tip_from_header(GenesisHash)),
                              Tip_from_header(GenesisHash))
    IN  [store |-> commit(cu2),
         orphans |-> OrphanBlockPool_new,
         missing |-> OrphanBlockPool_new,
         post_state_root |-> PostStateRoots(GenesisChunks, StateRoots)]

\* the new head compared with the prior head's predecessor
determine_status_prev(head, prev_head) ==
    IF head = None THEN [status |-> "Fork", old |-> NoHash]
    ELSE IF head.prev_block_hash = prev_head.prev_block_hash
    THEN [status |-> "Next", old |-> NoHash]
    ELSE [status |-> "Reorg", old |-> prev_head.last_block_hash]

determine_status(head, prev_head) ==
    IF head = None THEN [status |-> "Fork", old |-> NoHash]
    ELSE IF head.prev_block_hash = prev_head.last_block_hash
    THEN [status |-> "Next", old |-> NoHash]
    ELSE [status |-> "Reorg", old |-> prev_head.last_block_hash]

\* the batch committed whatever the result
commit_always(s, r) == commit(r.cu)

\* chain.rs:420-422  the batch is committed only when processing succeeded
commit_if_ok(s, r) == IF r.res = Ok THEN commit(r.cu) ELSE s

\* chain.rs:425-431  what the observer is told and what it can read from
\* the store at that moment (s = the store at the time of the call)
block_accepted(s, b, prov, head, prev_head) ==
    [cb |-> "accepted", block |-> b, provenance |-> prov,
     status |-> determine_status(head, prev_head),
     head |-> head, prev_head |-> prev_head,
     stored |-> b \in s.blocks, store_head |-> s.head]

block_misses_chunks(b) == [cb |-> "missing_chunks", block |-> b]

\* Error conversion of chain.rs:433-478
facade_error(e) ==
    IF e.kind \in {"Orphan", "ChunksMissing", "Unfit", "Panic"} THEN e
    ELSE [kind |-> "Other", msg |-> e.kind]

\* the observer notified before the batch is committed
accept_block_early(c, r, b, prov, prev_head) ==
    LET then(s1) ==
            [c EXCEPT !.store = s1,
                      !.log = Append(@, block_accepted(c.store, b, prov, r.tip, prev_head))]
    IN  then(commit_if_ok(c.store, r))

\* chain.rs:420-431  success: commit, classify, notify.  Returns the Chain.
accept_block(c, r, b, prov, prev_head) ==
    LET then(s1) ==
            [c EXCEPT !.store = s1,
                      !.log = Append(@, block_accepted(s1, b, prov, r.tip, prev_head))]
    IN  then(commit_if_ok(c.store, r))

\* Returns [c, res, tip]
process_block_single(c, b, prov, t, have, bld) ==
    IF Blk(b).defect = "NumChunks"
    THEN [c |-> c, res |-> Err("IncorrectNumberOfChunkHeaders"), tip |-> None]
    ELSE
    LET failed(r, s1) ==
            IF r.res.kind = "Orphan"
            THEN [c |-> [c EXCEPT !.store = s1, !.orphans = Pool_add(@, b, prov, t)],
                  res |-> facade_error(r.res), tip |-> None]
            ELSE IF r.res.kind = "ChunksMissing"
            THEN [c |-> [c EXCEPT !.store = s1,
                                  !.log = Append(@, block_misses_chunks(b)),
                                  !.missing = Pool_add(@, b, prov, t)],
                  res |-> facade_error(r.res), tip |-> None]
            ELSE [c |-> [c EXCEPT !.store = s1], res |-> facade_error(r.res),
                  tip |-> None]
        then(prev_head, r) ==
            IF r.res = Ok
            THEN [c |-> accept_block(c, r, b, prov, prev_head), res |-> Ok, tip |-> r.tip]
            ELSE failed(r, commit_if_ok(c.store, r))
    IN  then(c.store.head,
             ChainUpdate_process_block(store_update(c.store), c.orphans, c.missing,
                                       b, prov, t, have, bld))

\* The for loop over one popped bucket (chain.rs:542-559 and 495-512).
\* a = [c, accepted, head, panic]
RECURSIVE process_bucket(_, _, _, _, _)
process_bucket(a, list, t, have, bld) ==
    IF list = <<>> \/ a.panic THEN a
    ELSE LET then(r) ==
                 process_bucket([c |-> r.c,
                                 accepted |-> a.accepted \/ r.res = Ok,
                                 head |-> IF r.res = Ok THEN r.tip ELSE a.head,
                                 panic |-> r.res.kind = "Panic"],
                                Tail(list), t, have, bld)
         IN  then(process_block_single(a.c, Head(list).block, Head(list).provenance,
                                       t, have, bld))

RECURSIVE check_orphans_loop(_, _, _, _, _)
check_orphans_loop(a, height, t, have, bld) ==
    LET again(a2) ==
            IF a2.accepted /\ ~a2.panic
            THEN check_orphans_loop(a2, height + 1, t, have, bld)
            ELSE a2
        then(rm) ==
            IF ~rm.some THEN a
            ELSE again(process_bucket([a EXCEPT !.c.orphans = rm.pool], rm.list,
                                      t, have, bld))
    IN  then(Pool_remove_by_height(a.c.orphans, height))

\* Returns [c, head, panic]: the Chain, maybe_new_head
check_orphans(c, height, t, have, bld) ==
    check_orphans_loop([c |-> c, accepted |-> FALSE, head |-> None, panic |-> FALSE],
                       height, t, have, bld)

\* the cascade started at the block's own height
Chain_process_block_same_height(c, b, prov, t, have, bld) ==
    LET cascade(r, co) ==
            IF co.panic THEN [c |-> co.c, res |-> Err("Panic"), tip |-> None]
            ELSE IF co.head # None THEN [c |-> co.c, res |-> Ok, tip |-> co.head]
            ELSE [c |-> co.c, res |-> r.res, tip |-> r.tip]
        then(r) ==
            IF r.res # Ok THEN r
            ELSE cascade(r, check_orphans(r.c, Blk(b).height, t, have, bld))
    IN  then(process_block_single(c, b, prov, t, have, bld))

\* Returns [c, res, tip]
Chain_process_block(c, b, prov, t, have, bld) ==
    LET cascade(r, co) ==
            IF co.panic THEN [c |-> co.c, res |-> Err("Panic"), tip |-> None]
            ELSE IF co.head # None THEN [c |-> co.c, res |-> Ok, tip |-> co.head]
            ELSE [c |-> co.c, res |-> r.res, tip |-> r.tip]
        then(r) ==
            IF r.res # Ok THEN r
            ELSE cascade(r, check_orphans(r.c, Blk(b).height + 1, t, have, bld))
    IN  then(process_block_single(c, b, prov, t, have, bld))

\* Returns [c, panic]
Chain_check_blocks_with_missing_chunks(c, height, t, have, bld) ==
    LET cascade(co) == [c |-> co.c, panic |-> co.panic]
        again(a) ==
            IF a.panic \/ ~a.accepted THEN [c |-> a.c, panic |-> a.panic]
            ELSE cascade(check_orphans(a.c, height + 1, t, have, bld))
        then(rm) ==
            again(process_bucket([c |-> [c EXCEPT !.missing = rm.pool],
                                  accepted |-> FALSE, head |-> None, panic |-> FALSE],
                                 rm.list, t, have, bld))
    IN  then(Pool_remove_by_height(c.missing, height))

\* headers.sort_by(height): a stable sort
RECURSIVE InsertByHeight(_, _)
InsertByHeight(s, h) ==
    IF s = <<>> THEN <<h>>
    ELSE IF Blk(Head(s)).height <= Blk(h).height
    THEN <<Head(s)>> \o InsertByHeight(Tail(s), h)
    ELSE <<h>> \o s

\* the list taken in the order given
SortByHeight_unsorted(s) == s

RECURSIVE SortByHeight(_)
SortByHeight(s) ==
    IF s = <<>> THEN <<>>
    ELSE InsertByHeight(SortByHeight(SubSeq(s, 1, Len(s) - 1)), s[Len(s)])

\* The loop of chain.rs:272-294: each header is validated and committed on
\* its own; the first failure returns with the earlier headers persisted.
\* Returns [store, res]
RECURSIVE sync_headers_loop(_, _, _)
sync_headers_loop(s, headers, t) ==
    IF headers = <<>> THEN [store |-> s, res |-> Ok]
    ELSE LET then(h, cu, v) ==
                 IF v # Ok THEN [store |-> s, res |-> v]
                 ELSE sync_headers_loop(commit(save_block_header(cu, h)),
                                        Tail(headers), t)
         IN  then(Head(headers), store_update(s),
                  validate_header(store_update(s), Head(headers), "SYNC", t))

\* Returns [store, res]
Chain_sync_block_headers(s, hs, t) ==
    LET heads(lp, lastH) ==
            IF lp.res # Ok THEN lp
            ELSE [store |-> commit(update_header_head(
                                update_sync_head(store_update(lp.store), lastH), lastH)),
                  res |-> Ok]
        then(headers) ==
            IF headers = <<>> THEN [store |-> s, res |-> Ok]
            ELSE heads(IF headers[Len(headers)] \in s.headers
                       THEN [store |-> s, res |-> Ok]
                       ELSE sync_headers_loop(s, headers, t),
                       headers[Len(headers)])
    IN  then(SortByHeight(hs))

Chain_reset_sync_head(s) ==
    commit(save_sync_head(store_update(s), csu_header_head(store_update(s))))

\* chain.rs:583-607  commits an empty batch
Chain_set_shard_state(s, hash, payload_ok) ==
    IF hash \notin s.headers THEN [store |-> s, res |-> Err("DBNotFoundErr")]
    ELSE IF ~payload_ok THEN [store |-> s, res |-> Err("InvalidStatePayload")]
    ELSE [store |-> commit(store_update(s)), res |-> Ok]

\* the header is staged as process_block stages it, and the batch committed
Chain_process_block_header_committed(s, b, t) ==
    LET known == check_header_known(store_update(s), b)
        then(r) == [store |-> commit_if_ok(s, r), res |-> r.res]
    IN  IF known # Ok THEN [store |-> s, res |-> known]
        ELSE then(process_header_for_block(store_update(s), b, "NONE", t))

\* chain.rs:213-223  the ChainUpdate is dropped without commit
Chain_process_block_header(s, b, t) ==
    [store |-> s, res |-> ChainUpdate_process_block_header(store_update(s), b, t)]

(***************************************************************************)
(* The state machine: one action per public operation of Chain.            *)
(***************************************************************************)
Call(op, arg, res, ret, log) ==
    [op |-> op, arg |-> arg, res |-> res, ret |-> ret, log |-> log]

\* Calls that make no callback leave no record.
NoCall == Call("", NoHash, Ok, None, <<>>)

\* The observer counts the on_accepted calls it receives.
RECURSIVE Count(_, _)
Count(acc, log) ==
    IF log = <<>> THEN acc
    ELSE LET e == Head(log)
         IN  IF e.cb = "accepted"
             THEN Count([acc EXCEPT ![e.block] = IF @ < 2 THEN @ + 1 ELSE @], Tail(log))
             ELSE Count(acc, Tail(log))

ChainOf == [store |-> store, orphans |-> orphans, missing |-> missing, log |-> <<>>]

PoolsBounded == orphans.evicted < MaxEvicted /\ missing.evicted < MaxEvicted

Init ==
    /\ \E c \in Configurations : scen = c[1] /\ build = c[2]
    /\ \E c \in {Chain_new} :
          /\ store = c.store
          /\ orphans = c.orphans
          /\ missing = c.missing
    /\ now = 0
    /\ accepted = [b \in Ids |-> 0]
    /\ last = NoCall

ProcessBlock(b, prov, have) ==
    /\ PoolsBounded
    /\ LET returns(r) ==
               /\ store' = r.c.store
               /\ orphans' = r.c.orphans
               /\ missing' = r.c.missing
               /\ accepted' = Count(accepted, r.c.log)
               /\ last' = Call("process_block", b, r.res, r.tip, r.c.log)
       IN  returns(Chain_process_block(ChainOf, b, prov, now, have, build))
    /\ UNCHANGED <<scen, build, now>>

CheckBlocksWithMissingChunks(height, have) ==
    /\ PoolsBounded
    /\ LET returns(r) ==
               /\ store' = r.c.store
               /\ orphans' = r.c.orphans
               /\ missing' = r.c.missing
               /\ accepted' = Count(accepted, r.c.log)
               /\ last' = Call("check_blocks_with_missing_chunks", NoHash,
                               IF r.panic THEN Err("Panic") ELSE Ok, None, r.c.log)
       IN  returns(Chain_check_blocks_with_missing_chunks(ChainOf, height, now,
                                                          have, build))
    /\ UNCHANGED <<scen, build, now>>

SyncBlockHeaders(hs) ==
    /\ store' = Chain_sync_block_headers(store, hs, now).store
    /\ last' = NoCall
    /\ UNCHANGED <<scen, build, orphans, missing, now, accepted>>

ResetSyncHead ==
    /\ store' = Chain_reset_sync_head(store)
    /\ last' = NoCall
    /\ UNCHANGED <<scen, build, orphans, missing, now, accepted>>

ProcessBlockHeader(b) ==
    /\ store' = Chain_process_block_header(store, b, now).store
    /\ last' = NoCall
    /\ UNCHANGED <<scen, build, orphans, missing, now, accepted>>

SetShardState(hash, payload_ok) ==
    /\ store' = Chain_set_shard_state(store, hash, payload_ok).store
    /\ last' = NoCall
    /\ UNCHANGED <<scen, build, orphans, missing, now, accepted>>

Tick ==
    /\ now < MaxTicks
    /\ now' = now + 1
    /\ UNCHANGED <<scen, build, store, orphans, missing, accepted, last>>

HeaderLists == UNION {[1..n -> Ids] : n \in 0..MaxSyncLen}

Next ==
    \/ \E b \in Ids, prov \in Provenances, have \in SUBSET WaitIds :
          ProcessBlock(b, prov, have)
    \/ \E h \in Heights, have \in SUBSET WaitIds :
          CheckBlocksWithMissingChunks(h, have)
    \/ \E hs \in HeaderLists : SyncBlockHeaders(hs)
    \/ ResetSyncHead
    \/ \E b \in Ids, ok \in BOOLEAN : SetShardState(b, ok)
    \/ Tick

Spec == Init /\ [][Next]_vars

(***************************************************************************)
(* Properties                                                              *)
(***************************************************************************)
AcceptedIn(log) == {i \in 1..Len(log) : log[i].cb = "accepted"}

\* C1: in every reachable state the block head's total weight is at most
\* the header head's total weight.
C1_BlockHeadNotAboveHeaderHead ==
    store.head.total_weight <= store.header_head.total_weight

\* a block was accepted as head while header sync has run further ahead
C1_Witness ==
    /\ store.head.last_block_hash # GenesisHash
    /\ store.head.total_weight < store.header_head.total_weight

\* C2: a process_block call that returns an error leaves the committed store
\* (headers, blocks and the three heads) exactly as it was before the call,
\* also when the header and the block had been staged before the failure.
C2_FailedBlockLeavesStore ==
    [][(last'.op = "process_block" /\ last'.res # Ok) => store' = store]_vars

\* a block failed after its header (and block) had been staged
C2_Witness ==
    /\ last.op = "process_block"
    /\ last.res.kind = "Other"
    /\ last.res.msg \in {"InvalidStateRoot", "InvalidChunk", "Other"}

\* C3: the block head is a heaviest stored block and names a stored block.
C3_HeadIsHeaviestBlock ==
    /\ store.head.last_block_hash \in store.blocks
    /\ \A b \in store.blocks : Blk(b).total_weight <= store.head.total_weight

\* a fork block is stored beside a head that is not lighter and not lower
C3_Witness ==
    \E b \in store.blocks :
        /\ b # store.head.last_block_hash
        /\ Blk(b).prev_hash = store.head.prev_block_hash
        /\ Blk(b).height >= store.head.height

\* C4: no persisted header is heavier than the header head.
C4_HeaderHeadIsHeaviestHeader ==
    \A h \in store.headers : Blk(h).total_weight <= store.header_head.total_weight

\* C5: the header head is only ever replaced by a strictly heavier tip.
C5_HeaderHeadMonotone ==
    [][store'.header_head # store.header_head =>
         store'.header_head.total_weight > store.header_head.total_weight]_vars

\* the header head has been replaced at least twice
C5_Witness ==
    /\ store.header_head.prev_block_hash \notin {NoHash, GenesisHash}
    /\ store.header_head.total_weight > Blk(store.header_head.prev_block_hash).total_weight
    /\ store.header_head.prev_block_hash \in store.headers

\* A step that is a public call (every call but Tick leaves the clock alone).
CallStep == now' = now

\* The block head in place when the block of entry i was processed: the head
\* committed at the previous acceptance of the same call, or else the head
\* before the call (h0).
PriorHead(log, i, h0) ==
    LET J == {j \in AcceptedIn(log) : j < i}
    IN  IF J = {} THEN h0 ELSE log[Max(J)].store_head

\* The new head an acceptance produced, read off the committed store.
NewHead(e, prior) == IF e.store_head = prior THEN None ELSE e.store_head

\* C6: the status given to on_accepted is Fork when the block produced no
\* new head, Next when the new head's predecessor is the prior head, and
\* Reorg(prior head's hash) otherwise.
C6_StatusClassification ==
    [][CallStep =>
        \A i \in AcceptedIn(last'.log) :
            LET e == last'.log[i]
                prior == PriorHead(last'.log, i, store.head)
                nh == NewHead(e, prior)
            IN  /\ nh = None => e.status.status = "Fork"
                /\ (nh # None /\ nh.prev_block_hash = prior.last_block_hash)
                      => e.status.status = "Next"
                /\ (nh # None /\ nh.prev_block_hash # prior.last_block_hash)
                      => (e.status.status = "Reorg"
                          /\ e.status.old = prior.last_block_hash)]_vars

\* one call reported a Next and then a Fork
C6_Witness ==
    \E i, j \in AcceptedIn(last.log) :
        /\ i < j
        /\ last.log[i].status.status = "Next"
        /\ last.log[j].status.status = "Fork"

\* C7: an acceptance reported as Reorg(prev) made the block's tip the block
\* head, that tip is strictly heavier than the prior head, does not build on
\* it, and prev is the prior head's hash.
C7_ReorgLaw ==
    [][CallStep =>
        \A i \in AcceptedIn(last'.log) :
            LET e == last'.log[i]
                prior == PriorHead(last'.log, i, store.head)
            IN  e.status.status = "Reorg" =>
                    /\ e.store_head = Tip_from_header(e.block)
                    /\ e.store_head.total_weight > prior.total_weight
                    /\ e.store_head.prev_block_hash # prior.last_block_hash
                    /\ e.status.old = prior.last_block_hash]_vars

\* a Reorg was reported
C7_Witness ==
    \E i \in AcceptedIn(last.log) : last.log[i].status.status = "Reorg"

\* The second submission of a block that was accepted before.
Resubmitted == CallStep /\ last'.op = "process_block" /\ accepted[last'.arg] >= 1

NothingChanged ==
    /\ store' = store
    /\ orphans' = orphans
    /\ missing' = missing
    /\ accepted' = accepted
    /\ AcceptedIn(last'.log) = {}

\* C8 as stated: the second submission of an accepted block fails with
\* Unfit("already known in store") and changes nothing.
C8_SecondCallKnownInStore ==
    [][Resubmitted =>
        (last'.res = Unfit("already known in store") /\ NothingChanged)]_vars

\* C8 amended: the second submission of an accepted block changes nothing
\* and makes no callback; it fails with Unfit("already known in head") when
\* the block is the head or the head's predecessor, else with the old-block
\* rejection when the block is above height 50 and more than 50 below the
\* head (a head below 50 overflows the subtraction: rejection or panic),
\* else with Unfit("already known in store").
C8_SecondCallRejected ==
    [][Resubmitted =>
        /\ NothingChanged
        /\ LET b == last'.arg
               old == [kind |-> "Other", msg |-> "OldBlock"]
           IN  IF b \in {store.head.last_block_hash, store.head.prev_block_hash}
               THEN last'.res = Unfit("already known in head")
               ELSE IF Blk(b).height <= OLD_BLOCK_DEPTH
               THEN last'.res = Unfit("already known in store")
               ELSE IF store.head.height < OLD_BLOCK_DEPTH
               THEN last'.res \in {old, Err("Panic")}
               ELSE IF Blk(b).height < store.head.height - OLD_BLOCK_DEPTH
               THEN last'.res = old
               ELSE last'.res = Unfit("already known in store")]_vars

\* a stored side block, neither head nor its predecessor, was resubmitted
C8_Witness ==
    /\ last.op = "process_block"
    /\ accepted[last.arg] = 1
    /\ last.res = Unfit("already known in store")
    /\ last.arg \in store.blocks

\* An orphan whose checks all pass once its parent is stored.
ValidOrphan(b) ==
    /\ Blk(b).defect = "none"
    /\ ~Blk(b).wait
    /\ Blk(b).prev_hash \in Ids
    /\ Blk(b).timestamp > Blk(Blk(b).prev_hash).timestamp
    /\ Blk(b).timestamp <= Now(now) + ACCEPTABLE_TIME_DIFFERENCE
    /\ (Blk(b).weight_ok \/ orphans.orphans[b].provenance = "PRODUCED")

\* C9: a block submitted before its parent is known fails with Orphan and is
\* parked (the pool having room); when the parent is then accepted by
\* process_block, the same call accepts the parked block after the parent,
\* takes it out of the pool and, if it is the heaviest block, makes it head.
C9_OrphanThenResolution ==
    [][(CallStep /\ last'.op = "process_block") =>
        LET b == last'.arg
        IN  /\ (/\ Blk(b).prev_hash \notin store.blocks
                /\ b \notin store.blocks
                /\ ~Pool_contains(orphans, b) /\ ~Pool_contains(missing, b)
                /\ Blk(b).defect # "NumChunks"
                /\ Pool_len(orphans) < MAX_ORPHAN_SIZE)
               => (last'.res = Err("Orphan") /\ Pool_contains(orphans', b))
            /\ last'.res = Ok =>
                 \A b2 \in DOMAIN orphans.orphans :
                    (/\ Blk(b2).prev_hash = b
                     /\ Blk(b2).height = Blk(b).height + 1
                     /\ ValidOrphan(b2))
                    => /\ \E i, j \in AcceptedIn(last'.log) :
                            /\ i < j
                            /\ last'.log[i].block = b
                            /\ last'.log[j].block = b2
                       /\ ~Pool_contains(orphans', b2)
                       /\ b2 \in store'.blocks
                       /\ (\A x \in store'.blocks \ {b2} :
                              Blk(x).total_weight < Blk(b2).total_weight)
                          => store'.head = Tip_from_header(b2)]_vars

\* S3: the parent's call accepted the parent and then the parked child,
\* which is the head, and the pool is empty
C9_Witness ==
    /\ last.op = "process_block"
    /\ last.res = Ok
    /\ Len(last.log) = 2
    /\ last.log[1].block = last.arg
    /\ Blk(last.log[2].block).prev_hash = last.arg
    /\ last.log[2].status.status = "Next"
    /\ store.head = Tip_from_header(last.log[2].block)
    /\ Pool_len(orphans) = 0

\* C10: at every on_accepted the block is in the committed store and, if it
\* became the head, the committed head is its tip; a block has been reported
\* exactly once if it is stored and never otherwise; a call that returns an
\* error reported nothing.
C10_AcceptedAfterCommit ==
    /\ \A i \in AcceptedIn(last.log) :
          /\ last.log[i].stored
          /\ last.log[i].head # None =>
                (/\ last.log[i].head = Tip_from_header(last.log[i].block)
                 /\ last.log[i].store_head = last.log[i].head)
    /\ \A b \in Ids \ {GenesisHash} :
          accepted[b] = IF b \in store.blocks THEN 1 ELSE 0
    /\ (last.op = "process_block" /\ last.res # Ok) => AcceptedIn(last.log) = {}

\* a cascade reported two blocks, the second of which became the head
C10_Witness ==
    /\ Cardinality(AcceptedIn(last.log)) >= 2
    /\ \E i \in AcceptedIn(last.log) :
          /\ i > 1
          /\ last.log[i].head # None
          /\ accepted[last.log[i].block] = 1

\* The error ChainUpdate::process_block raises for the submitted block.
RaisedBy(b, prov, have) ==
    ChainUpdate_process_block(store_update(store), orphans, missing,
                              b, prov, now, have, build).res

\* C11: an error raised while processing the submitted block reaches the
\* caller of process_block unchanged, with the same error kind.
C11_ErrorsReachCallerUnchanged ==
    [][(CallStep /\ last'.op = "process_block" /\ last'.res # Ok
                 /\ last'.res.kind # "Panic") =>
        \E prov \in Provenances, have \in SUBSET WaitIds :
            last'.res = RaisedBy(last'.arg, prov, have)]_vars

\* C12: a block that fails with Orphan is inserted into the orphan pool only;
\* one that fails with ChunksMissing is reported once to on_missing_chunks
\* and inserted into the incomplete pool only; any other error leaves both
\* pools alone and an accepted block is in neither pool.  (An inserted block
\* is in the pool or was evicted by the same add.)
C12_ParkingRule ==
    [][(CallStep /\ last'.op = "process_block") =>
        LET b == last'.arg
            reports == {i \in 1..Len(last'.log) :
                          last'.log[i] = block_misses_chunks(b)}
        IN  /\ last'.res.kind = "Orphan" =>
                 /\ Pool_contains(orphans', b) \/ orphans'.evicted > orphans.evicted
                 /\ missing' = missing
                 /\ last'.log = <<>>
            /\ last'.res.kind = "ChunksMissing" =>
                 /\ Pool_contains(missing', b) \/ missing'.evicted > missing.evicted
                 /\ orphans' = orphans
                 /\ Cardinality(reports) = 1 /\ Len(last'.log) = 1
            /\ last'.res.kind \notin {"Orphan", "ChunksMissing", "Ok"} =>
                 /\ orphans' = orphans /\ missing' = missing
                 /\ last'.log = <<>>
            /\ last'.res = Ok =>
                 ~Pool_contains(orphans', b) /\ ~Pool_contains(missing', b)]_vars

\* a block was reported to on_missing_chunks and waits in the incomplete pool
C12_Witness ==
    /\ last.op = "process_block"
    /\ last.res.kind = "ChunksMissing"
    /\ Pool_contains(missing, last.arg)
    /\ ~Pool_contains(orphans, last.arg)
    /\ last.log = <<block_misses_chunks(last.arg)>>

(***************************************************************************)
(* The orphan pool on its own: any sequence of add and remove_by_height,   *)
(* with the clock advancing in between.  The pool is the variable orphans; *)
(* the chain is not used.                                                  *)
(***************************************************************************)
PoolInit ==
    /\ scen = "heights" /\ build = "release"
    /\ \E c \in {Chain_new} :
          /\ store = c.store
          /\ missing = c.missing
    /\ orphans = OrphanBlockPool_new
    /\ now = 0
    /\ accepted = [b \in Ids |-> 0]
    /\ last = NoCall

\* The chain adds a block only after check_known_orphans (chain.rs:1085) has
\* found it in neither pool, so add is never called for a hash in the map.
PoolAdd(b, prov) ==
    /\ orphans.evicted < MaxEvicted
    /\ ~Pool_contains(orphans, b)
    /\ orphans' = Pool_add(orphans, b, prov, now)
    /\ last' = Call("add", b, Ok, None, <<>>)
    /\ UNCHANGED <<scen, build, store, missing, now, accepted>>

PoolRemoveByHeight(height) ==
    /\ orphans' = Pool_remove_by_height(orphans, height).pool
    /\ last' = Call("remove_by_height", NoHash, Ok, None, <<>>)
    /\ UNCHANGED <<scen, build, store, missing, now, accepted>>

PoolNext ==
    \/ \E b \in Ids \ {GenesisHash}, prov \in Provenances : PoolAdd(b, prov)
    \/ \E h \in Heights : PoolRemoveByHeight(h)
    \/ Tick

PoolSpec == PoolInit /\ [][PoolNext]_vars

\* C13: the pool never holds more than MAX_ORPHAN_SIZE entries.
C13_PoolNeverOverCap == Pool_len(orphans) <= MAX_ORPHAN_SIZE

\* the pool is full again after an eviction
C13_Witness ==
    /\ orphans.evicted > 0
    /\ Pool_len(orphans) = MAX_ORPHAN_SIZE

\* The hashes listed in the buckets of the height index.
Indexed(pool) == UNION {Range(pool.height_idx[h]) : h \in DOMAIN pool.height_idx}

\* C14: the by-hash map and the height index agree on membership.
C14_IndexAgreesWithMap == DOMAIN orphans.orphans = Indexed(orphans)

\* C15: an add that takes the pool over the cap while no entry has expired
\* evicts at least one entry, counts every evicted entry, and every entry it
\* keeps is lower than every entry it evicts.
C15_EvictionKeepsLowest ==
    [][(last'.op = "add" /\ now' = now) =>
        LET b == last'.arg
            before == DOMAIN orphans.orphans \cup {b}
            evicted == before \ DOMAIN orphans'.orphans
        IN  (/\ Cardinality(before) > MAX_ORPHAN_SIZE
             /\ \A x \in DOMAIN orphans.orphans : Fresh(orphans.orphans[x], now))
            => /\ evicted # {}
               /\ DOMAIN orphans'.orphans \subseteq before
               /\ orphans'.evicted = orphans.evicted + Cardinality(evicted)
               /\ \A x \in evicted, y \in DOMAIN orphans'.orphans :
                      Blk(y).height < Blk(x).height]_vars

\* an add evicted the highest entries and kept a lower one
C15_Witness ==
    /\ last.op = "add"
    /\ orphans.evicted > 0
    /\ Pool_len(orphans) > 0
    /\ \A x \in DOMAIN orphans.orphans : orphans.orphans[x].added = now
    /\ last.arg \notin DOMAIN orphans.orphans

\* x is listed before y in the bucket of their height.
ListedBefore(pool, x, y) ==
    LET bucket == pool.height_idx[Blk(x).height]
    IN  \E p, q \in 1..Len(bucket) : p < q /\ bucket[p] = x /\ bucket[q] = y

\* C16: the orphans a process_block call accepts in its cascade (every
\* callback after the first) come in increasing height order, and two of the
\* same height in the order of their bucket; and a bucket is in insertion
\* order: a block parked without eviction goes to the end of the bucket of
\* its height, behind the entries already there.
C16_CascadeOrder ==
    [][(CallStep /\ last'.op = "process_block") =>
        /\ \A i, j \in AcceptedIn(last'.log) :
              (1 < i /\ i < j) =>
                  LET x == last'.log[i].block
                      y == last'.log[j].block
                  IN  /\ Blk(last'.arg).height < Blk(x).height
                      /\ Blk(x).height <= Blk(y).height
                      /\ Blk(x).height = Blk(y).height => ListedBefore(orphans, x, y)
        /\ (/\ last'.res.kind = "Orphan"
            /\ orphans'.evicted = orphans.evicted
            /\ Blk(last'.arg).height \in DOMAIN orphans.height_idx)
           => orphans'.height_idx[Blk(last'.arg).height]
                 = Append(orphans.height_idx[Blk(last'.arg).height], last'.arg)]_vars

\* one cascade accepted two orphans of one height, the one with the larger
\* hash first
C16_Witness ==
    /\ last.op = "process_block"
    /\ Len(last.log) = 3
    /\ AcceptedIn(last.log) = {1, 2, 3}
    /\ Blk(last.log[2].block).height = Blk(last.log[3].block).height
    /\ last.log[2].block > last.log[3].block

\* C17: a block that passes validation becomes the block head, and its tip is
\* what processing returns, exactly when it is strictly heavier than the head
\* in place; otherwise processing returns None, the head stays, the block is
\* stored all the same and the observer is told Fork.
C17_HeadUpdateStep ==
    [][CallStep =>
        \A i \in AcceptedIn(last'.log) :
            LET e == last'.log[i]
                prior == PriorHead(last'.log, i, store.head)
                heavier == Blk(e.block).total_weight > prior.total_weight
            IN  /\ e.stored
                /\ e.block \in store'.blocks
                /\ heavier => (/\ e.head = Tip_from_header(e.block)
                               /\ e.store_head = Tip_from_header(e.block))
                /\ ~heavier => (/\ e.head = None
                                /\ e.store_head = prior
                                /\ e.status.status = "Fork")]_vars

\* S5 with equal weights: a fork as heavy as the head was stored, reported as
\* Fork, and the head stayed
C17_Witness ==
    /\ last.op = "process_block"
    /\ last.res = Ok
    /\ last.ret = None
    /\ Len(last.log) = 1
    /\ last.log[1].status.status = "Fork"
    /\ Blk(last.arg).total_weight = store.head.total_weight
    /\ last.arg \in store.blocks
    /\ store.head.last_block_hash # last.arg

\* What validate_header requires of header h over store s at time t for a
\* header that did not come from this node's own block production.
SyncValid(s, h, t) ==
    /\ Blk(h).timestamp <= Now(t) + ACCEPTABLE_TIME_DIFFERENCE
    /\ Blk(h).prev_hash \in s.headers
    /\ Blk(h).timestamp > Blk(Blk(h).prev_hash).timestamp
    /\ Blk(h).weight_ok

\* C18: in every reachable state, for every header list: a sync_block_headers
\* call that returns Ok on a non-empty list sets the sync head to the tip of
\* the list's last header by height whatever its weight, sets the header head
\* to that tip exactly when it is strictly heavier than the header head in
\* place, leaves the block head and the blocks alone and, unless the last
\* header was known, has validated and persisted every header of the list;
\* on the empty list it changes nothing.
C18_SyncBlockHeaders ==
    \A hs \in HeaderLists :
        LET r == Chain_sync_block_headers(store, hs, now)
            sorted == SortByHeight(hs)
            lastH == sorted[Len(sorted)]
        IN  /\ hs = <<>> => (r.res = Ok /\ r.store = store)
            /\ (hs # <<>> /\ r.res = Ok) =>
                 /\ \A i \in 1..Len(hs) : Blk(hs[i]).height <= Blk(lastH).height
                 /\ r.store.sync_head = Tip_from_header(lastH)
                 /\ r.store.header_head =
                       IF Blk(lastH).total_weight > store.header_head.total_weight
                       THEN Tip_from_header(lastH)
                       ELSE store.header_head
                 /\ r.store.head = store.head
                 /\ r.store.blocks = store.blocks
                 /\ lastH \notin store.headers =>
                       /\ Range(hs) \subseteq r.store.headers
                       /\ \A i \in 1..Len(hs) : SyncValid(r.store, hs[i], now)
                 /\ lastH \in store.headers => r.store.headers = store.headers

\* a sync call left the sync head on a header lighter than the header head
C18_Witness ==
    /\ store.sync_head.total_weight < store.header_head.total_weight
    /\ store.sync_head.last_block_hash # GenesisHash
    /\ store.sync_head.last_block_hash \in store.headers
    /\ store.sync_head.last_block_hash \notin store.blocks

\* C19: every persisted header whose predecessor header is persisted has a
\* later timestamp than it; and validate_header rejects with
\* InvalidBlockPastTime, for every provenance, a header that is not later
\* than its persisted predecessor.
C19_TimestampsIncrease ==
    /\ \A h \in store.headers :
          Blk(h).prev_hash \in store.headers =>
              Blk(h).timestamp > Blk(Blk(h).prev_hash).timestamp
    /\ \A b \in Ids, prov \in {"NONE", "PRODUCED", "SYNC"} :
          (/\ Blk(b).prev_hash \in store.headers
           /\ Blk(b).timestamp <= Blk(Blk(b).prev_hash).timestamp)
          => /\ validate_header(store_update(store), b, prov, now)
                   = Err("InvalidBlockPastTime")
             /\ b \notin store.headers

\* a block not later than its parent was refused while another header has
\* been persisted on the same parent
C19_Witness ==
    /\ last.op = "process_block"
    /\ last.res = [kind |-> "Other", msg |-> "InvalidBlockPastTime"]
    /\ Blk(last.arg).timestamp <= Blk(Blk(last.arg).prev_hash).timestamp
    /\ \E h \in store.headers :
          h # GenesisHash /\ Blk(h).prev_hash = Blk(last.arg).prev_hash

\* C20: the header of every persisted block is persisted.
C20_BlockHasHeader == store.blocks \subseteq store.headers

\* a block and its header are stored while header sync has stored more
C20_Witness ==
    /\ \E b \in store.blocks : b # GenesisHash
    /\ store.headers # store.blocks

\* C21: Chain::new on a store without a head commits the genesis header and
\* block, records each shard's state root as the post-state root of the
\* genesis chunk of that shard, leaves the three heads on the genesis tip
\* and starts with two empty pools.
C21_GenesisBootstrap ==
    LET c == Chain_new
        tip == [last_block_hash |-> GenesisHash, prev_block_hash |-> NoHash,
                height |-> 0, total_weight |-> 0]
    IN  /\ c.store.headers = {GenesisHash}
        /\ c.store.blocks = {GenesisHash}
        /\ c.store.head = tip
        /\ c.store.header_head = tip
        /\ c.store.sync_head = tip
        /\ Pool_len(c.orphans) = 0 /\ c.orphans.height_idx = EmptyFn
        /\ Pool_len(c.missing) = 0 /\ c.missing.height_idx = EmptyFn
        /\ DOMAIN c.post_state_root = Range(GenesisChunks)
        /\ \A i \in 1..NumShards : c.post_state_root[GenesisChunks[i]] = StateRoots[i]

\* the chain as Chain::new left it, before any call
C21_Witness ==
    /\ store = Chain_new.store
    /\ orphans = Chain_new.orphans
    /\ missing = Chain_new.missing
    /\ last = NoCall
    /\ now = 0

(***************************************************************************)
(* Chain::check_state_needed                                               *)
(***************************************************************************)
SaturatingSub(a, b) == IF a >= b THEN a - b ELSE 0

\* every stored header is taken for the main chain's at its height
is_on_current_chain_any(s, h) == TRUE

\* chain.rs:350-357  the main chain has this very header at its height
is_on_current_chain(s, h) == get_block_hash_by_height(s, Blk(h).height) = h

\* chain.rs:329-339  while let Ok(header) = current: stop at a header not
\* above the block head that is on the current chain, else collect it
RECURSIVE state_needed_walk(_, _, _, _, _)
state_needed_walk(s, current, oldest_height, hashes, fuel) ==
    IF current \notin Ids \/ current \notin s.headers \/ fuel = 0
    THEN [oldest_height |-> oldest_height, hashes |-> hashes]
    ELSE IF Blk(current).height <= s.head.height /\ is_on_current_chain(s, current)
    THEN [oldest_height |-> oldest_height, hashes |-> hashes]
    ELSE state_needed_walk(s, Blk(current).prev_hash, Blk(current).height,
                           Append(hashes, current), fuel - 1)

\* chain.rs:315-347
Chain_check_state_needed(s, block_fetch_horizon) ==
    IF s.head.total_weight >= s.header_head.total_weight
    THEN [res |-> Ok, need |-> FALSE, hashes |-> <<>>, store |-> s]
    ELSE LET walked(w) ==
                 IF w.oldest_height <
                        SaturatingSub(s.sync_head.height, block_fetch_horizon)
                 THEN [res |-> Ok, need |-> TRUE, hashes |-> <<>>, store |-> s]
                 ELSE [res |-> Ok, need |-> FALSE, hashes |-> w.hashes, store |-> s]
         IN  walked(state_needed_walk(s, s.header_head.last_block_hash, 0, <<>>,
                                      Cardinality(Ids)))

Horizons == 0..MaxHorizon

\* the stored headers from x backwards along prev_hash, x first
RECURSIVE HeadersBack(_, _, _)
HeadersBack(s, x, fuel) ==
    IF x \notin Ids \/ x \notin s.headers \/ fuel = 0 THEN <<>>
    ELSE <<x>> \o HeadersBack(s, Blk(x).prev_hash, fuel - 1)

\* C23: check_state_needed answers (false, []) when the block head is at
\* least as heavy as the header head; otherwise the hashes are the headers
\* from the header head backwards up to, and without, the first one at a
\* height not above the block head that is on the main chain, and the answer
\* is (true, []) instead when the last of them lies below sync head height
\* minus horizon (not below 0); the store is as before.
C23_CheckStateNeeded ==
    \A horizon \in Horizons :
        LET r == Chain_check_state_needed(store, horizon)
            path == HeadersBack(store, store.header_head.last_block_hash,
                                Cardinality(Ids))
            Stops == {i \in 1..Len(path) :
                         /\ Blk(path[i]).height <= store.head.height
                         /\ get_block_hash_by_height(store, Blk(path[i]).height) = path[i]}
            n == IF Stops = {} THEN Len(path) ELSE Min(Stops) - 1
            visited == SubSeq(path, 1, n)
            floor == IF store.sync_head.height > horizon
                     THEN store.sync_head.height - horizon ELSE 0
            below == n > 0 /\ Blk(path[n]).height < floor
        IN  /\ r.store = store
            /\ r.res = Ok
            /\ IF store.head.total_weight >= store.header_head.total_weight
               THEN ~r.need /\ r.hashes = <<>>
               ELSE IF below THEN r.need /\ r.hashes = <<>>
               ELSE ~r.need /\ r.hashes = visited

\* the header head is ahead of the block head on a branch the block head is
\* not on: with the largest horizon the headers to fetch are listed, with
\* horizon 0 the state is needed
C23_Witness ==
    /\ store.head.total_weight < store.header_head.total_weight
    /\ store.head.last_block_hash # GenesisHash
    /\ Chain_check_state_needed(store, MaxHorizon).hashes # <<>>
    /\ ~Chain_check_state_needed(store, MaxHorizon).need
    /\ Chain_check_state_needed(store, 0).need

\* C24: in every reachable state, for every header: process_block_header
\* leaves the store with its three heads as it was, whatever it returns.  It
\* returns Unfit for the header head's own header and for its predecessor,
\* otherwise Ok exactly for a header that passes validation over the stored
\* headers, Orphan when the predecessor's header is not stored and the
\* timestamp is acceptable; the header is not among the stored headers
\* afterwards unless it was before.
C24_ProcessBlockHeaderReadOnly ==
    \A b \in Ids :
        LET r == Chain_process_block_header(store, b, now)
            known == b \in {store.header_head.last_block_hash,
                            store.header_head.prev_block_hash}
        IN  /\ r.store = store
            /\ known => r.res = Unfit("header already known")
            /\ ~known => (r.res = Ok <=> SyncValid(store, b, now))
            /\ (/\ ~known
                /\ Blk(b).prev_hash \notin store.headers
                /\ Blk(b).timestamp <= Now(now) + ACCEPTABLE_TIME_DIFFERENCE)
                  => r.res.kind = "Orphan"

\* the header head has moved off genesis; one header would pass and is not
\* stored, another is refused as the header head's predecessor
C24_Witness ==
    /\ store.header_head.last_block_hash # GenesisHash
    /\ \E b \in Ids :
          /\ b \notin store.headers
          /\ Chain_process_block_header(store, b, now).res = Ok
    /\ Chain_process_block_header(store, store.header_head.prev_block_hash, now).res
          = Unfit("header already known")

\* C25: in every reachable state, for every stored block that is neither the
\* block head nor its predecessor nor in a pool, the duplicate check signals
\* OldBlock exactly when the block's height is above 50 and below the block
\* head's height minus 50, and Unfit("already known in store") otherwise,
\* whatever the block head's height.
C25_OldBlockThreshold ==
    \A b \in store.blocks :
        (/\ check_known_head(store_update(store), b) = Ok
         /\ check_known_orphans(orphans, missing, b) = Ok)
        => check_known(store_update(store), orphans, missing, b, build) =
              IF /\ Blk(b).height > OLD_BLOCK_DEPTH
                 /\ Blk(b).height < store.head.height - OLD_BLOCK_DEPTH
              THEN Err("OldBlock")
              ELSE Unfit("already known in store")

\* C26: in every accepted process_block call the cascade, started at the
\* height above the block's, stops at the first height whose bucket is
\* missing or gave no accepted orphan: every bucket at a greater height, and
\* the pool's record of each orphan in it, is after the call as it was
\* before.
C26_CascadeStopRule ==
    [][(CallStep /\ last'.op = "process_block" /\ last'.res = Ok) =>
          LET Acc == {last'.log[i].block : i \in AcceptedIn(last'.log)}
              Goes(k) == /\ k \in DOMAIN orphans.height_idx
                         /\ \E x \in Range(orphans.height_idx[k]) :
                               x \in DOMAIN orphans.orphans /\ x \in Acc
              Stop == Min({k \in (Blk(last'.arg).height + 1)..(Max(Heights) + 2) :
                              ~Goes(k)})
          IN  \A k \in DOMAIN orphans.height_idx :
                  k > Stop =>
                     /\ k \in DOMAIN orphans'.height_idx
                     /\ orphans'.height_idx[k] = orphans.height_idx[k]
                     /\ \A x \in Range(orphans.height_idx[k]) \cap DOMAIN orphans.orphans :
                           /\ x \in DOMAIN orphans'.orphans
                           /\ orphans'.orphans[x] = orphans.orphans[x]
       ]_vars

\* C27: in every process_block call that accepts its block, the call returns
\* Ok and every orphan of a bucket the cascade pops (the buckets from the
\* height above the block's up to the first height without an acceptance)
\* that is not accepted is absent from the orphan pool after the call.
C27_FailedOrphanStaysEvicted ==
    [][(/\ CallStep /\ last'.op = "process_block"
        /\ \E i \in AcceptedIn(last'.log) : last'.log[i].block = last'.arg) =>
          LET Acc == {last'.log[i].block : i \in AcceptedIn(last'.log)}
              first == Blk(last'.arg).height + 1
              Goes(k) == /\ k \in DOMAIN orphans.height_idx
                         /\ \E x \in Range(orphans.height_idx[k]) :
                               x \in DOMAIN orphans.orphans /\ x \in Acc
              Stop == Min({k \in first..(Max(Heights) + 2) : ~Goes(k)})
          IN  /\ last'.res = Ok
              /\ \A k \in DOMAIN orphans.height_idx \cap first..Stop :
                    \A x \in Range(orphans.height_idx[k]) \cap DOMAIN orphans.orphans :
                        x \notin Acc => x \notin DOMAIN orphans'.orphans
       ]_vars

\* C28: when an add takes the pool over the cap and dropping the expired
\* entries alone brings it back to at most MAX_ORPHAN_SIZE, every unexpired
\* entry, the orphan just added among them, is in the pool after the add.
C28_EvictionTwoStage ==
    [][(last'.op = "add" /\ now' = now) =>
        LET b == last'.arg
            before == DOMAIN orphans.orphans \cup {b}
            unexpired == {b} \cup {x \in DOMAIN orphans.orphans :
                                     Fresh(orphans.orphans[x], now)}
        IN  (/\ Cardinality(before) > MAX_ORPHAN_SIZE
             /\ Cardinality(unexpired) <= MAX_ORPHAN_SIZE)
            => unexpired \subseteq DOMAIN orphans'.orphans]_vars

\* C29: a process_block call for a block that is not already known returns
\* Orphan exactly when the header of the block's predecessor is not stored,
\* or the predecessor is not the block head and its full block is not
\* stored; whether the block's own header is valid plays no part.
C29_ParentLookupRule ==
    [][(/\ CallStep /\ last'.op = "process_block"
        /\ check_known(store_update(store), orphans, missing, last'.arg, build) = Ok) =>
          LET prev_hash == Blk(last'.arg).prev_hash
          IN  last'.res.kind = "Orphan" <=>
                 \/ prev_hash \notin store.headers
                 \/ /\ prev_hash # store.head.last_block_hash
                    /\ prev_hash \notin store.blocks
       ]_vars

\* a block was parked as an orphan although the header of its predecessor is
\* stored (the full block is not), and its own header is not valid: its
\* timestamp is not later than its predecessor's
C29_Witness ==
    /\ last.op = "process_block"
    /\ last.res.kind = "Orphan"
    /\ Pool_contains(orphans, last.arg)
    /\ Blk(last.arg).prev_hash \in store.headers \ store.blocks
    /\ Blk(last.arg).timestamp <= Blk(Blk(last.arg).prev_hash).timestamp

\* the lists that hold the same headers as hs in another order
Permuted(hs) ==
    {[i \in 1..Len(hs) |-> hs[p[i]]] :
        p \in {q \in [1..Len(hs) -> 1..Len(hs)] :
                  \A i, j \in 1..Len(hs) : q[i] = q[j] => i = j}}

DistinctHeights(hs) ==
    \A i, j \in 1..Len(hs) : Blk(hs[i]).height = Blk(hs[j]).height => i = j

\* C30 as stated: in every reachable state, for every header list and every
\* permutation of it, sync_block_headers returns the same result and leaves
\* the same store (headers, sync head, header head).
C30_OrderInsensitiveAnyList ==
    \A hs \in HeaderLists :
        \A hs2 \in Permuted(hs) :
            Chain_sync_block_headers(store, hs2, now) =
                Chain_sync_block_headers(store, hs, now)

\* C30, amended: the same for every header list in which no two headers
\* have the same height.
C30_OrderInsensitive ==
    \A hs \in HeaderLists :
        DistinctHeights(hs) =>
            \A hs2 \in Permuted(hs) :
                Chain_sync_block_headers(store, hs2, now) =
                    Chain_sync_block_headers(store, hs, now)

\* two new headers given highest first are both persisted and the heads
\* are on the higher one
C30_Witness ==
    \E hs \in HeaderLists :
        /\ Len(hs) = 2
        /\ Blk(hs[1]).height > Blk(hs[2]).height
        /\ Range(hs) \cap store.headers = {}
        /\ Chain_sync_block_headers(store, hs, now).res = Ok
        /\ Range(hs) \subseteq Chain_sync_block_headers(store, hs, now).store.headers
        /\ Chain_sync_block_headers(store, hs, now).store.sync_head = Tip_from_header(hs[1])

\* C31: after a process_block call that returns Ok, no block whose
\* predecessor is the submitted block is in the orphan pool, whatever its
\* height.
C31_NoOrphanWaitsOnAccepted ==
    [][(CallStep /\ last'.op = "process_block" /\ last'.res = Ok) =>
          \A x \in DOMAIN orphans'.orphans : Blk(x).prev_hash # last'.arg
       ]_vars

\* C32: a process_block call that returns Ok(Some(tip)) leaves the block head
\* on tip, and one that returns Ok(None) leaves the block head where it was
\* before the call.
C32_ReturnedTipIsFinalHead ==
    [][(CallStep /\ last'.op = "process_block" /\ last'.res = Ok) =>
          IF last'.ret # None
          THEN store'.head = last'.ret
          ELSE store'.head = store.head
       ]_vars

\* the places that hold the block: the block store, the orphan pool, the
\* pool of blocks with missing chunks
HeldIn(b) ==
    {p \in {"store", "orphans", "missing"} :
        \/ p = "store" /\ b \in store.blocks
        \/ p = "orphans" /\ Pool_contains(orphans, b)
        \/ p = "missing" /\ Pool_contains(missing, b)}

\* C33: in every reachable state a block is in at most one of the block
\* store, the orphan pool and the pool of blocks with missing chunks; and a
\* process_block call for a block that is parked in either pool returns
\* Unfit and leaves the store and both pools as they were.
C33_ParkedOnce ==
    [][/\ \A b \in Ids : Cardinality(HeldIn(b)) <= 1
       /\ \A b \in Ids : Cardinality(HeldIn(b)') <= 1
       /\ (/\ CallStep /\ last'.op = "process_block"
           /\ (Pool_contains(orphans, last'.arg) \/ Pool_contains(missing, last'.arg))) =>
             /\ last'.res.kind = "Unfit"
             /\ store' = store
             /\ orphans' = orphans
             /\ missing' = missing
      ]_vars

\* a block parked in the orphan pool was submitted again and refused, with
\* a second orphan beside it and blocks in the store
C33_Witness ==
    /\ last.op = "process_block"
    /\ last.res = Unfit("already known in orphans")
    /\ HeldIn(last.arg) = {"orphans"}
    /\ Pool_len(orphans) > 1
    /\ store.blocks # {GenesisHash}

(***************************************************************************)
(* Chain::new over a store an earlier run left behind.                     *)
(***************************************************************************)
\* A store as an earlier run may have left it: every block has its header,
\* the block head names a stored block, the header head and the sync head
\* name any header of the universe, stored or (partial state) not; or the
\* store is empty.
LeftStores ==
    {EmptyStore} \cup
    {[headers |-> hs, blocks |-> bs, head |-> Tip_from_header(b),
      header_head |-> Tip_from_header(h), sync_head |-> Tip_from_header(y)] :
        <<hs, bs, b, h, y>> \in
            {t \in (SUBSET Ids) \X (SUBSET Ids) \X Ids \X Ids \X Ids :
                t[2] \subseteq t[1] /\ t[3] \in t[2]}}

\* the genesis hash of the node's configuration and that of another one
ConfiguredGenesis == {GenesisHash, 1}

ReopenInit ==
    /\ scen \in {"main", "long"} /\ build = "release"
    /\ store \in LeftStores
    /\ orphans = OrphanBlockPool_new
    /\ missing = OrphanBlockPool_new
    /\ now = 0
    /\ accepted = [b \in Ids |-> 0]
    /\ last = NoCall

\* chain.rs:112-196  ret keeps the heads the store held before the call
Reopen(genesis) ==
    /\ LET opened(c) ==
               /\ store' = c.store
               /\ last' = Call("new", genesis, c.res,
                               [head |-> store.head, header_head |-> store.header_head,
                                sync_head |-> store.sync_head], <<>>)
       IN  IF store.head = None
           THEN opened([res |-> Ok, store |-> Chain_new.store])
           ELSE opened(Chain_reopen(store, genesis))
    /\ orphans' = OrphanBlockPool_new
    /\ missing' = OrphanBlockPool_new
    /\ UNCHANGED <<scen, build, now, accepted>>

ReopenNext == \E genesis \in ConfiguredGenesis : Reopen(genesis)

ReopenSpec == ReopenInit /\ [][ReopenNext]_vars

\* C22: Chain::new on a store that has a head and the configured genesis
\* leaves the block head and what is stored as they were; when the header the
\* header head names is not stored, header head and sync head become the
\* block head, otherwise the header head stays and the sync head becomes the
\* header head.
C22_Reopening ==
    (last.op = "new" /\ last.res = Ok /\ last.ret.head # None) =>
        /\ store.head = last.ret.head
        /\ IF last.ret.header_head.last_block_hash \notin store.headers
           THEN store.header_head = store.head /\ store.sync_head = store.head
           ELSE /\ store.header_head = last.ret.header_head
                /\ store.sync_head = store.header_head

\* recovery from partial state: the header head named a header that is not
\* stored, and header head and sync head were both moved to the block head
C22_Witness ==
    /\ last.op = "new" /\ last.res = Ok /\ last.ret.head # None
    /\ last.ret.header_head.last_block_hash \notin store.headers
    /\ last.ret.header_head # store.head
    /\ last.ret.sync_head # store.head
    /\ store.header_head = store.head /\ store.sync_head = store.head

====
